---------------------------- MODULE Spec2Model ----------------------------
(***************************************************************************)
(* Model of claro_invoice (src/main.py): the date-token parser, the stale- *)
(* element retry decorator, the download watcher, the file archiver and    *)
(* the main() / process_accounts() orchestration of ClaroInvoiceScraper.   *)
(*                                                                         *)
(* Strings are sequences of one-character strings, so that split, join,   *)
(* strptime and file-name formatting are computed and not assumed.         *)
(***************************************************************************)
EXTENDS Integers, Sequences, FiniteSets, TLC

VARIABLES
    \* ---- extract_and_parse_dates harness
    token,          \* the date_string argument
    presult,        \* "pending" or the outcome of extract_and_parse_dates
    \* ---- retry_on_stale_element wrapper (one activation at a time)
    rg,
    \* ---- file system: downloads/ (archive) and downloads/tmp/ (staging)
    archiveExists, stagingExists, archive, staging, today,
    \* ---- wait_for_download_complete activation
    w,
    \* ---- move_and_rename_file harness
    mv,
    \* ---- main() / process_accounts()
    pc,             \* where main() is
    driver,         \* the browser session: "none", "open" or "quit"
    escaped,        \* the exception that left main(), or "none"
    account_list,   \* the snapshot of the account selector's values
    acctIdx,        \* position of the account loop in account_list
    options,        \* number of invoice options of the selected account
    invIdx,         \* position of the invoice loop in options
    cur,            \* locals of the invoice loop's body
    dls,            \* the downloads the browser was asked for
    hist            \* what has happened in the run so far

parserVars == <<token, presult>>
fsVars == <<archiveExists, stagingExists, archive, staging, today>>
orchVars == <<pc, driver, escaped, account_list, acctIdx, options, invIdx, cur, dls, hist>>
vars == <<token, presult, rg, archiveExists, stagingExists, archive, staging,
          today, w, mv, pc, driver, escaped, account_list, acctIdx, options,
          invIdx, cur, dls, hist>>

-----------------------------------------------------------------------------
(* Characters and strings                                                  *)

DigitChars == {"0", "1", "2", "3", "4", "5", "6", "7", "8", "9"}

DigitVal(c) ==
    CASE c = "0" -> 0 [] c = "1" -> 1 [] c = "2" -> 2 [] c = "3" -> 3
      [] c = "4" -> 4 [] c = "5" -> 5 [] c = "6" -> 6 [] c = "7" -> 7
      [] c = "8" -> 8 [] c = "9" -> 9

AllDigits(s) == \A i \in 1..Len(s) : s[i] \in DigitChars

RECURSIVE ToInt(_)
ToInt(s) == IF s = <<>> THEN 0
            ELSE 10 * ToInt(SubSeq(s, 1, Len(s) - 1)) + DigitVal(s[Len(s)])

\* str.split(sep): the pieces between the occurrences of the one-character sep
RECURSIVE SplitFrom(_, _, _)
SplitFrom(s, sep, piece) ==
    IF s = <<>> THEN <<piece>>
    ELSE IF Head(s) = sep THEN <<piece>> \o SplitFrom(Tail(s), sep, <<>>)
    ELSE SplitFrom(Tail(s), sep, Append(piece, Head(s)))

Split(s, sep) == SplitFrom(s, sep, <<>>)

\* sep.join(pieces)
RECURSIVE Join(_, _)
Join(pieces, sep) ==
    IF pieces = <<>> THEN <<>>
    ELSE IF Len(pieces) = 1 THEN pieces[1]
    ELSE pieces[1] \o <<sep>> \o Join(Tail(pieces), sep)

\* str.replace(old, new) for one-character old and new
Replace(s, old, new) == [i \in 1..Len(s) |-> IF s[i] = old THEN new ELSE s[i]]

-----------------------------------------------------------------------------
(* datetime.strptime for the two formats the program uses                  *)

\* %d : 3[0-1] | [1-2]\d | 0[1-9] | [1-9] | " "[1-9]
MatchDay(f) ==
    \/ Len(f) = 2 /\ f[1] = "3" /\ f[2] \in {"0", "1"}
    \/ Len(f) = 2 /\ f[1] \in {"1", "2"} /\ f[2] \in DigitChars
    \/ Len(f) = 2 /\ f[1] = "0" /\ f[2] \in DigitChars \ {"0"}
    \/ Len(f) = 1 /\ f[1] \in DigitChars \ {"0"}
    \/ Len(f) = 2 /\ f[1] = " " /\ f[2] \in DigitChars \ {"0"}

\* %m : 1[0-2] | 0[1-9] | [1-9]
MatchMonth(f) ==
    \/ Len(f) = 2 /\ f[1] = "1" /\ f[2] \in {"0", "1", "2"}
    \/ Len(f) = 2 /\ f[1] = "0" /\ f[2] \in DigitChars \ {"0"}
    \/ Len(f) = 1 /\ f[1] \in DigitChars \ {"0"}

\* %Y : \d\d\d\d
MatchYear(f) == Len(f) = 4 /\ AllDigits(f)

FieldInt(f) == ToInt(SelectSeq(f, LAMBDA c : c \in DigitChars))

IsLeap(y) == (y % 4 = 0 /\ y % 100 # 0) \/ y % 400 = 0

DaysInMonth(y, m) ==
    IF m = 2 THEN (IF IsLeap(y) THEN 29 ELSE 28)
    ELSE IF m \in {4, 6, 9, 11} THEN 30 ELSE 31

\* the datetime constructor's range check (MINYEAR = 1)
ValidDate(y, m, d) == y >= 1 /\ m \in 1..12 /\ d >= 1 /\ d <= DaysInMonth(y, m)

NoDate == [y |-> 0, m |-> 0, d |-> 0]

\* strptime(s, '%d/%m/%Y'): a date record, or NoDate for ValueError
StrptimeDMY(s) ==
    LET f == Split(s, "/") IN
    IF Len(f) = 3 /\ MatchDay(f[1]) /\ MatchMonth(f[2]) /\ MatchYear(f[3])
       /\ ValidDate(FieldInt(f[3]), FieldInt(f[2]), FieldInt(f[1]))
    THEN [y |-> FieldInt(f[3]), m |-> FieldInt(f[2]), d |-> FieldInt(f[1])]
    ELSE NoDate

\* strptime(s, '%m/%Y'): the day defaults to 1
StrptimeMY(s) ==
    LET f == Split(s, "/") IN
    IF Len(f) = 2 /\ MatchMonth(f[1]) /\ MatchYear(f[2])
       /\ ValidDate(FieldInt(f[2]), FieldInt(f[1]), 1)
    THEN [y |-> FieldInt(f[2]), m |-> FieldInt(f[1]), d |-> 1]
    ELSE NoDate

-----------------------------------------------------------------------------
(* extract_and_parse_dates                                                 *)

ParseOk(dt, ref) == [kind |-> "dates", first |-> dt, second |-> ref]
ParseNone == [kind |-> "none", first |-> NoDate, second |-> NoDate]
ParseRaised == [kind |-> "IndexError", first |-> NoDate, second |-> NoDate]

\* a parser that takes the reference period from the first date
extract_and_parse_dates_refFromDue(date_string) ==
    LET parts == Split(date_string, "|")
        first_date == StrptimeDMY(parts[1])
    IN  IF first_date = NoDate THEN ParseNone
        ELSE IF Len(parts) < 3 THEN ParseRaised
        ELSE LET second_date_str == parts[2] \o <<"|">> \o parts[3]
                 second_date == StrptimeMY(Replace(second_date_str, "|", "/"))
             IN  IF second_date = NoDate THEN ParseNone
                 ELSE ParseOk(first_date, [first_date EXCEPT !.d = 1])

\* Only ValueError is caught; parts[1] / parts[2] on a short list raise
\* IndexError, which leaves the function.
extract_and_parse_dates(date_string) ==
    LET parts == Split(date_string, "|")
        first_date == StrptimeDMY(parts[1])
    IN  IF first_date = NoDate THEN ParseNone
        ELSE IF Len(parts) < 3 THEN ParseRaised
        ELSE LET second_date_str == parts[2] \o <<"|">> \o parts[3]
                 second_date == StrptimeMY(Replace(second_date_str, "|", "/"))
             IN  IF second_date = NoDate THEN ParseNone
                 ELSE ParseOk(first_date, second_date)


-----------------------------------------------------------------------------
(* Idle values: each harness below drives one component and leaves the     *)
(* state of the others at these values.                                    *)

\* a directory is a function from the names of its files to their content
EmptyDir == [n \in {} |-> <<>>]

\* the calendar day on which the harnesses and the run start
Today0 == [y |-> 2024, m |-> 3, d |-> 10]

ParsePending == [kind |-> "pending", first |-> NoDate, second |-> NoDate]

RgIdleValue == [state |-> "idle", retries |-> 0, delay |-> 0, attempt |-> 0,
                calls |-> 0, stales |-> 0, slept |-> 0, exc |-> "none",
                value |-> "none", values |-> {}, others |-> {}]

NoPath == [dir |-> "none", name |-> <<>>]

WIdleValue == [state |-> "idle", seconds |-> 0, timeout |-> 0, file_type |-> <<>>,
               success |-> FALSE, path |-> NoPath, polls |-> 0,
               sawMarker |-> FALSE, files |-> {}]

MvIdleValue == [result |-> NoPath, raised |-> FALSE, calls |-> 0, seen |-> EmptyDir,
                paths |-> <<>>, missing |-> FALSE]


ParserIdle == token = <<>> /\ presult = ParsePending
RgIdle == rg = RgIdleValue
FsIdle == /\ archiveExists = TRUE /\ stagingExists = TRUE
          /\ archive = EmptyDir /\ staging = EmptyDir /\ today = Today0
WIdle == w = WIdleValue
MvIdle == mv = MvIdleValue
OrchIdle == /\ pc = "idle" /\ driver = "none" /\ escaped = "none"
            /\ account_list = <<>> /\ acctIdx = 0
            /\ options = 0 /\ invIdx = 0 /\ cur = <<>> /\ dls = <<>>
            /\ hist = <<>>

-----------------------------------------------------------------------------
(* Harness for extract_and_parse_dates: tokens are built from pools of     *)
(* fields joined with '/' and '|', one to MaxSegments segments each.       *)

MaxSegments == 4

DayFields == {<<"5">>, <<"0", "5">>, <<"2", "9">>, <<"3", "1">>, <<"0">>,
              <<"3", "2">>, <<"a">>}
MonthFields == {<<"2">>, <<"3">>, <<"0", "3">>, <<"1", "3">>, <<"x">>}
YearFields == {<<"2", "0", "2", "4">>, <<"2", "0", "2", "3">>, <<"2", "4">>}

Seg0Pool == {Join(<<d, m, y>>, "/") : d \in DayFields, m \in MonthFields, y \in YearFields}
            \cup {<<"5", "/", "3">>, <<"a", "b", "c">>, <<>>}
Seg1Pool == {<<"3">>, <<"0", "3">>, <<"2">>, <<"1", "3">>, <<"x">>, <<>>}
Seg2Pool == {<<"2", "0", "2", "4">>, <<"2", "4">>, <<"x">>}
ExtraPool == {<<"7">>}

SegPool(i) == IF i = 1 THEN Seg0Pool ELSE IF i = 2 THEN Seg1Pool
              ELSE IF i = 3 THEN Seg2Pool ELSE ExtraPool

RECURSIVE TokensOf(_)
TokensOf(n) == IF n = 1 THEN Seg0Pool
               ELSE {t \o <<"|">> \o s : t \in TokensOf(n - 1), s \in SegPool(n)}

TokenPool == UNION {TokensOf(n) : n \in 1..MaxSegments}

InitParser ==
    /\ token \in TokenPool
    /\ presult = ParsePending
    /\ RgIdle /\ FsIdle /\ WIdle /\ MvIdle /\ OrchIdle

\* the caller's  invoice_dt, invoice_ref = extract_and_parse_dates(value)
ParseToken ==
    /\ presult.kind = "pending"
    /\ presult' = extract_and_parse_dates(token)
    /\ UNCHANGED <<token, rg, fsVars, w, mv, orchVars>>

NextParser == ParseToken

SpecParser == InitParser /\ [][NextParser]_vars


\* ---- what the claims call a malformed token, stated on the token's text
TokenSegments(t) == Split(t, "|")

\* the '/'-separated fields of segment 0, then the remaining segments
TokenFields(t) == Split(TokenSegments(t)[1], "/") \o Tail(TokenSegments(t))

WrongSegmentCount(t) == Len(TokenSegments(t)) # 3

NonNumericField(t) ==
    \E i \in 1..Len(TokenFields(t)) : ~AllDigits(TokenFields(t)[i])

OutOfRangeField(t) ==
    LET f == TokenFields(t) IN
    /\ Len(TokenSegments(t)) = 3 /\ Len(f) = 5
    /\ \A i \in 1..5 : f[i] # <<>> /\ AllDigits(f[i])
    /\ \/ ~ValidDate(ToInt(f[3]), ToInt(f[2]), ToInt(f[1]))
       \/ ~ValidDate(ToInt(f[5]), ToInt(f[4]), 1)

MalformedToken(t) == WrongSegmentCount(t) \/ NonNumericField(t) \/ OutOfRangeField(t)

\* C5 (as claimed): every token with a non-numeric field, a segment count
\* other than three or an out-of-range calendar field makes the parser
\* return (None, None): nothing is raised and no date is produced.
C5_MalformedReturnsFailure ==
    (presult.kind # "pending" /\ MalformedToken(token)) => presult = ParseNone

\* a token D/M/YYYY|M|YYYY of digits, day and months of one or two digits,
\* years of four, all in calendar range
WellFormedToken(t) ==
    LET f == TokenFields(t) IN
    /\ Len(TokenSegments(t)) = 3 /\ Len(f) = 5
    /\ \A i \in 1..5 : f[i] # <<>> /\ AllDigits(f[i])
    /\ Len(f[1]) \in {1, 2} /\ Len(f[2]) \in {1, 2} /\ Len(f[3]) = 4
    /\ Len(f[4]) \in {1, 2} /\ Len(f[5]) = 4
    /\ ValidDate(ToInt(f[3]), ToInt(f[2]), ToInt(f[1]))
    /\ ValidDate(ToInt(f[5]), ToInt(f[4]), 1)

\* C18: for a well-formed token the parser returns two dates: the first has
\* the day, month and year written in segment 0, the second the month and
\* year written in segments 1 and 2.
C18_ValidTokenDecoded ==
    (presult.kind # "pending" /\ WellFormedToken(token)) =>
        LET f == TokenFields(token) IN
        /\ presult.kind = "dates"
        /\ presult.first = [y |-> ToInt(f[3]), m |-> ToInt(f[2]), d |-> ToInt(f[1])]
        /\ presult.second.m = ToInt(f[4]) /\ presult.second.y = ToInt(f[5])

\* 05/3/2024|2|2024 decoded: due 2024-03-05, reference period 2024-02
C18_Witness ==
    /\ token = <<"0", "5", "/", "3", "/", "2", "0", "2", "4", "|", "2", "|",
                 "2", "0", "2", "4">>
    /\ presult.kind = "dates"
    /\ presult.first = [y |-> 2024, m |-> 3, d |-> 5]
    /\ presult.second.y = 2024 /\ presult.second.m = 2

-----------------------------------------------------------------------------
(* retry_on_stale_element: the wrapper around one decorated call           *)

\* values: what the wrapped function can return; others: what it can raise
\* besides StaleElementReferenceException
RgBegin(retries, delay, values, others) ==
    [state |-> "running", retries |-> retries, delay |-> delay, attempt |-> 0,
     calls |-> 0, stales |-> 0, slept |-> 0, exc |-> "none", value |-> "none",
     values |-> values, others |-> others]

OtherFailures == {"TimeoutException", "NoSuchElementException"}

\* what one invocation of func can do: return one of r.values, raise
\* StaleElementReferenceException, or raise another exception
FuncOutcomes(r) == r.values \cup {"StaleElementReferenceException"} \cup r.others

\* a wrapper that tests the attempt number against retries instead of retries - 1
wrapper_lateRaise(r, outcome) ==
    IF r.attempt >= r.retries
    THEN [r EXCEPT !.state = "returned", !.value = "None"]
    ELSE IF outcome \in r.values
    THEN [r EXCEPT !.state = "returned", !.value = outcome, !.calls = @ + 1]
    ELSE IF outcome \in r.others
    THEN [r EXCEPT !.state = "raised", !.exc = outcome, !.calls = @ + 1]
    ELSE IF r.attempt = r.retries
         THEN [r EXCEPT !.state = "raised", !.exc = outcome,
                        !.calls = @ + 1, !.stales = @ + 1]
         ELSE [r EXCEPT !.attempt = @ + 1, !.calls = @ + 1, !.stales = @ + 1,
                        !.slept = @ + r.delay]

\* one pass of  for attempt in range(retries)  (or the trailing return None
\* when the range is exhausted, which happens only for retries <= 0)
wrapper(r, outcome) ==
    IF r.attempt >= r.retries
    THEN [r EXCEPT !.state = "returned", !.value = "None"]
    ELSE IF outcome \in r.values
    THEN [r EXCEPT !.state = "returned", !.value = outcome, !.calls = @ + 1]
    ELSE IF outcome \in r.others
    THEN [r EXCEPT !.state = "raised", !.exc = outcome, !.calls = @ + 1]
    ELSE IF r.attempt = r.retries - 1
         THEN [r EXCEPT !.state = "raised", !.exc = outcome,
                        !.calls = @ + 1, !.stales = @ + 1]
         ELSE [r EXCEPT !.attempt = @ + 1, !.calls = @ + 1, !.stales = @ + 1,
                        !.slept = @ + r.delay]

RetryStep ==
    /\ rg.state = "running"
    /\ \E outcome \in FuncOutcomes(rg) : rg' = wrapper(rg, outcome)
    /\ UNCHANGED <<parserVars, fsVars, w, mv, orchVars>>

MaxRetries == 4
MaxDelay == 2
HarnessValues == {"a", "b"}

InitRetry ==
    /\ rg \in {RgBegin(r, d, HarnessValues, OtherFailures) : r \in 0..MaxRetries, d \in 0..MaxDelay}
    /\ ParserIdle /\ FsIdle /\ WIdle /\ MvIdle /\ OrchIdle

NextRetry == RetryStep

SpecRetry == InitRetry /\ [][NextRetry]_vars

\* C4: with retries >= 1, a return happens after k < retries stale failures
\* and exactly k + 1 invocations and carries the operation's value; the stale
\* failure is propagated exactly when it was raised retries times, after
\* retries invocations; any other failure is propagated by the invocation
\* that raised it; while running, every invocation so far was a stale one.
C4_RetryGuard ==
    rg.retries >= 1 =>
      /\ rg.state = "running" =>
            rg.calls = rg.stales /\ rg.stales = rg.attempt /\ rg.stales < rg.retries
      /\ rg.state = "returned" =>
            rg.stales < rg.retries /\ rg.calls = rg.stales + 1 /\ rg.value \in rg.values
      /\ (rg.state = "raised" /\ rg.exc = "StaleElementReferenceException") =>
            rg.stales = rg.retries /\ rg.calls = rg.retries
      /\ (rg.state = "raised" /\ rg.exc # "StaleElementReferenceException") =>
            rg.exc \in rg.others /\ rg.calls = rg.stales + 1 /\ rg.stales < rg.retries
      /\ rg.stales = rg.retries =>
            rg.state = "raised" /\ rg.exc = "StaleElementReferenceException"

\* two stale failures, then success on the third of three attempts
C4_Witness ==
    /\ rg.state = "returned" /\ rg.retries = 3 /\ rg.stales = 2 /\ rg.calls = 3
    /\ rg.value \in HarnessValues


-----------------------------------------------------------------------------
(* File names, extensions and date formatting                              *)

UpperChars == <<"A", "B", "C", "D", "E", "F", "G", "H", "I", "J", "K", "L", "M",
                "N", "O", "P", "Q", "R", "S", "T", "U", "V", "W", "X", "Y", "Z">>
LowerChars == <<"a", "b", "c", "d", "e", "f", "g", "h", "i", "j", "k", "l", "m",
                "n", "o", "p", "q", "r", "s", "t", "u", "v", "w", "x", "y", "z">>

LowerChar(c) == IF \E i \in 1..26 : UpperChars[i] = c
                THEN LowerChars[CHOOSE i \in 1..26 : UpperChars[i] = c]
                ELSE c

\* str.lower()
Lower(s) == [i \in 1..Len(s) |-> LowerChar(s[i])]

\* str.endswith(suffix)
EndsWith(s, suffix) ==
    /\ Len(s) >= Len(suffix)
    /\ SubSeq(s, Len(s) - Len(suffix) + 1, Len(s)) = suffix

DigitSeq == <<"0", "1", "2", "3", "4", "5", "6", "7", "8", "9">>

\* str(n) for n >= 0
RECURSIVE IntToStr(_)
IntToStr(n) == IF n < 10 THEN <<DigitSeq[n + 1]>>
               ELSE IntToStr(n \div 10) \o <<DigitSeq[(n % 10) + 1]>>

RECURSIVE ZeroPad(_, _)
ZeroPad(s, width) == IF Len(s) >= width THEN s ELSE ZeroPad(<<"0">> \o s, width)

\* strftime('%Y-%m-%d') and strftime('%Y-%m')
StrftimeYmd(dt) == ZeroPad(IntToStr(dt.y), 4) \o <<"-">> \o ZeroPad(IntToStr(dt.m), 2)
                   \o <<"-">> \o ZeroPad(IntToStr(dt.d), 2)
StrftimeYm(dt) == ZeroPad(IntToStr(dt.y), 4) \o <<"-">> \o ZeroPad(IntToStr(dt.m), 2)

\* os.path.splitext on a base name: the extension starts at the last dot,
\* unless only dots precede it
splitext(name) ==
    LET dots == {i \in 1..Len(name) : name[i] = "."}
        lastDot == IF dots = {} THEN 0 ELSE CHOOSE i \in dots : \A j \in dots : j <= i
    IN  IF lastDot > 0 /\ \E j \in 1..(lastDot - 1) : name[j] # "."
        THEN <<SubSeq(name, 1, lastDot - 1), SubSeq(name, lastDot, Len(name))>>
        ELSE <<name, <<>>>>

ExtPdf == <<".", "p", "d", "f">>
ExtPdfUpper == <<".", "P", "D", "F">>
ExtCrdownload == <<".", "c", "r", "d", "o", "w", "n", "l", "o", "a", "d">>
ExtTmp == <<".", "t", "m", "p">>
ExtTxt == <<".", "t", "x", "t">>

StagingPath(name) == [dir |-> "staging", name |-> name]
ArchivePath(name) == [dir |-> "archive", name |-> name]

Restrict(dir, names) == [n \in names |-> dir[n]]
WithFile(dir, name, content) ==
    [n \in DOMAIN dir \cup {name} |-> IF n = name THEN content ELSE dir[n]]

-----------------------------------------------------------------------------
(* wait_for_download_complete                                              *)

IsMarker(f) == EndsWith(f, ExtCrdownload) \/ EndsWith(f, ExtTmp)

WBegin(timeout, file_type) ==
    [state |-> "polling", seconds |-> 0, timeout |-> timeout, file_type |-> file_type,
     success |-> FALSE, path |-> NoPath, polls |-> 0, sawMarker |-> FALSE,
     files |-> {}]

\* a watcher that looks for the completed file before looking for markers
wait_for_download_complete_noMarkerCheck(wr, files, first) ==
    IF ~(wr.seconds < wr.timeout)
    THEN [wr EXCEPT !.state = "done", !.success = FALSE, !.path = NoPath]
    ELSE LET downloaded_files == {f \in files : EndsWith(Lower(f), wr.file_type)} IN
         IF downloaded_files # {}
         THEN [wr EXCEPT !.state = "done", !.success = TRUE,
                         !.path = StagingPath(IF first \in downloaded_files THEN first
                                              ELSE CHOOSE f \in downloaded_files : TRUE),
                         !.polls = @ + 1, !.files = files]
         ELSE [wr EXCEPT !.seconds = @ + 1, !.polls = @ + 1, !.files = files]

\* a watcher whose loop test lets one more pass through
wait_for_download_complete_extraPoll(wr, files, first) ==
    IF ~(wr.seconds <= wr.timeout)
    THEN [wr EXCEPT !.state = "done", !.success = FALSE, !.path = NoPath]
    ELSE IF \E f \in files : IsMarker(f)
    THEN [wr EXCEPT !.seconds = @ + 1, !.polls = @ + 1, !.sawMarker = TRUE,
                    !.files = files]
    ELSE LET downloaded_files == {f \in files : EndsWith(Lower(f), wr.file_type)} IN
         IF downloaded_files # {}
         THEN [wr EXCEPT !.state = "done", !.success = TRUE,
                         !.path = StagingPath(IF first \in downloaded_files THEN first
                                              ELSE CHOOSE f \in downloaded_files : TRUE),
                         !.polls = @ + 1, !.files = files]
         ELSE [wr EXCEPT !.seconds = @ + 1, !.polls = @ + 1, !.files = files]

\* The loop test and one pass of the loop body.  files is os.listdir(staging);
\* first is the entry os.listdir happens to list first among the matching
\* ones (the listing order is the file system's).
wait_for_download_complete(wr, files, first) ==
    IF ~(wr.seconds < wr.timeout)
    THEN [wr EXCEPT !.state = "done", !.success = FALSE, !.path = NoPath]
    ELSE IF \E f \in files : IsMarker(f)
    THEN [wr EXCEPT !.seconds = @ + 1, !.polls = @ + 1, !.sawMarker = TRUE,
                    !.files = files]
    ELSE LET downloaded_files == {f \in files : EndsWith(Lower(f), wr.file_type)} IN
         IF downloaded_files # {}
         THEN [wr EXCEPT !.state = "done", !.success = TRUE,
                         !.path = StagingPath(IF first \in downloaded_files THEN first
                                              ELSE CHOOSE f \in downloaded_files : TRUE),
                         !.polls = @ + 1, !.files = files]
         ELSE [wr EXCEPT !.seconds = @ + 1, !.polls = @ + 1, !.files = files]

WatchPoll ==
    /\ w.state = "polling"
    /\ stagingExists
    /\ \E first \in DOMAIN staging \cup {<<>>} :
          w' = wait_for_download_complete(w, DOMAIN staging, first)
    /\ UNCHANGED <<parserVars, rg, fsVars, mv, orchVars>>

-----------------------------------------------------------------------------
(* move_and_rename_file                                                    *)

DirOf(fs, d) == IF d = "staging" THEN fs.staging ELSE fs.archive

\* os.path.exists
PathExists(fs, p) == p.dir \in {"staging", "archive"} /\ p.name \in DOMAIN DirOf(fs, p.dir)

\* a destination chosen without looking at what the archive holds
ResolveName_noCounter(candidate, new_name, ext, counter, existing) == candidate

\* a counter appended after the extension instead of before it
RECURSIVE ResolveName_counterAfterExt(_, _, _, _, _)
ResolveName_counterAfterExt(candidate, new_name, ext, counter, existing) ==
    IF candidate \notin existing THEN candidate
    ELSE ResolveName_counterAfterExt(new_name \o ext \o <<"_">> \o IntToStr(counter),
                                     new_name, ext, counter + 1, existing)

\* while os.path.exists(new_filename): new_filename = new_name_counter.ext
RECURSIVE ResolveName(_, _, _, _, _)
ResolveName(candidate, new_name, ext, counter, existing) ==
    IF candidate \notin existing THEN candidate
    ELSE ResolveName(new_name \o <<"_">> \o IntToStr(counter) \o ext,
                     new_name, ext, counter + 1, existing)

\* an archiver that copies the source instead of moving it
move_and_rename_file_copy(source_file, prefix, fs, moveOk) ==
    IF source_file = NoPath \/ ~PathExists(fs, source_file)
    THEN [archive |-> fs.archive, staging |-> fs.staging, result |-> NoPath,
          raised |-> FALSE]
    ELSE LET name_parts == splitext(source_file.name)
             original_name == name_parts[1]
             original_ext == name_parts[2]
             today_date == StrftimeYmd(fs.today)
             new_name == IF prefix # <<>>
                         THEN prefix \o <<"_">> \o today_date \o <<"_">> \o original_name
                         ELSE today_date \o <<"_">> \o original_name
             new_filename == ResolveName(new_name \o original_ext, new_name,
                                         original_ext, 1, DOMAIN fs.archive)
             content == DirOf(fs, source_file.dir)[source_file.name]
         IN  IF moveOk
             THEN [archive |-> WithFile(fs.archive, new_filename, content),
                   staging |-> fs.staging,
                   result |-> ArchivePath(new_filename), raised |-> FALSE]
             ELSE [archive |-> fs.archive, staging |-> fs.staging,
                   result |-> NoPath, raised |-> TRUE]

\* an archiver that tests the argument for emptiness only: shutil.move then
\* raises for a source that does not exist
move_and_rename_file_noExistsCheck(source_file, prefix, fs, moveOk) ==
    IF source_file = NoPath
    THEN [archive |-> fs.archive, staging |-> fs.staging, result |-> NoPath,
          raised |-> FALSE]
    ELSE IF ~PathExists(fs, source_file)
    THEN [archive |-> fs.archive, staging |-> fs.staging, result |-> NoPath,
          raised |-> TRUE]
    ELSE LET name_parts == splitext(source_file.name)
             original_name == name_parts[1]
             original_ext == name_parts[2]
             today_date == StrftimeYmd(fs.today)
             new_name == IF prefix # <<>>
                         THEN prefix \o <<"_">> \o today_date \o <<"_">> \o original_name
                         ELSE today_date \o <<"_">> \o original_name
             new_filename == ResolveName(new_name \o original_ext, new_name,
                                         original_ext, 1, DOMAIN fs.archive)
             content == DirOf(fs, source_file.dir)[source_file.name]
             stagingLeft == Restrict(fs.staging, DOMAIN fs.staging \ {source_file.name})
         IN  IF moveOk
             THEN [archive |-> WithFile(fs.archive, new_filename, content),
                   staging |-> stagingLeft,
                   result |-> ArchivePath(new_filename), raised |-> FALSE]
             ELSE [archive |-> fs.archive, staging |-> fs.staging,
                   result |-> NoPath, raised |-> TRUE]

\* fs is the file system before the call; moveOk tells whether shutil.move
\* succeeds (an OSError leaves the file system as it was and leaves the
\* function: there is no handler).
move_and_rename_file(source_file, prefix, fs, moveOk) ==
    IF source_file = NoPath \/ ~PathExists(fs, source_file)
    THEN [archive |-> fs.archive, staging |-> fs.staging, result |-> NoPath,
          raised |-> FALSE]
    ELSE LET name_parts == splitext(source_file.name)
             original_name == name_parts[1]
             original_ext == name_parts[2]
             today_date == StrftimeYmd(fs.today)
             new_name == IF prefix # <<>>
                         THEN prefix \o <<"_">> \o today_date \o <<"_">> \o original_name
                         ELSE today_date \o <<"_">> \o original_name
             new_filename == ResolveName(new_name \o original_ext, new_name,
                                         original_ext, 1, DOMAIN fs.archive)
             content == DirOf(fs, source_file.dir)[source_file.name]
             stagingLeft == IF source_file.dir = "staging"
                            THEN Restrict(fs.staging, DOMAIN fs.staging \ {source_file.name})
                            ELSE fs.staging
             archiveLeft == IF source_file.dir = "archive"
                            THEN Restrict(fs.archive, DOMAIN fs.archive \ {source_file.name})
                            ELSE fs.archive
         IN  IF moveOk
             THEN [archive |-> WithFile(archiveLeft, new_filename, content),
                   staging |-> stagingLeft,
                   result |-> ArchivePath(new_filename), raised |-> FALSE]
             ELSE [archive |-> fs.archive, staging |-> fs.staging,
                   result |-> NoPath, raised |-> TRUE]

FsNow == [archive |-> archive, staging |-> staging, today |-> today]


-----------------------------------------------------------------------------
(* Harness for move_and_rename_file: files appear in staging, the day may  *)
(* change, and the archiver is called with any staging path (present or    *)
(* not), or with None, and any prefix.                                     *)

MaxArchiveCalls == 2
MaxDays == 1

NameF == <<"f">> \o ExtPdf
NameF1 == <<"f", "_", "1">> \o ExtPdf
NameG == <<"g">> \o ExtPdfUpper

HarnessNames == {NameF, NameF1}
HarnessPrefixes == {<<>>, <<"p">>}
HarnessData == {<<"A">>, <<"B">>}
HarnessSources == {NoPath} \cup {StagingPath(n) : n \in HarnessNames}

\* what an earlier run of the same day may have left in the archive
EarlierArchive ==
    WithFile(EmptyDir, <<"p", "_">> \o StrftimeYmd(Today0) \o <<"_">> \o NameF, <<"O">>)

NextDay(dt) ==
    IF dt.d < DaysInMonth(dt.y, dt.m) THEN [dt EXCEPT !.d = @ + 1]
    ELSE IF dt.m < 12 THEN [dt EXCEPT !.d = 1, !.m = @ + 1]
    ELSE [y |-> dt.y + 1, m |-> 1, d |-> 1]

InitArchiver ==
    /\ archiveExists = TRUE /\ stagingExists = TRUE
    /\ archive \in {EmptyDir, EarlierArchive}
    /\ staging = EmptyDir
    /\ today = Today0
    /\ mv = MvIdleValue
    /\ ParserIdle /\ RgIdle /\ WIdle /\ OrchIdle

\* the environment puts a completed file into staging
StageFile ==
    /\ \E n \in HarnessNames \ DOMAIN staging, c \in HarnessData :
          staging' = WithFile(staging, n, c)
    /\ UNCHANGED <<parserVars, rg, archiveExists, stagingExists, archive, today,
                   w, mv, orchVars>>

Midnight ==
    /\ today.d < Today0.d + MaxDays
    /\ today' = NextDay(today)
    /\ UNCHANGED <<parserVars, rg, archiveExists, stagingExists, archive, staging,
                   w, mv, orchVars>>

\* one call of move_and_rename_file; mv keeps the call's result, whether its
\* source was missing, every archive content seen before a call, and the
\* paths returned with the arguments they were returned for
ArchiveCall ==
    /\ mv.calls < MaxArchiveCalls
    /\ \E src \in HarnessSources, prefix \in HarnessPrefixes, moveOk \in BOOLEAN :
          LET r == move_and_rename_file(src, prefix, FsNow, moveOk) IN
          /\ archive' = r.archive
          /\ staging' = r.staging
          /\ mv' = [result |-> r.result,
                    raised |-> r.raised, calls |-> mv.calls + 1,
                    seen |-> archive @@ mv.seen,
                    missing |-> (src = NoPath \/ src.name \notin DOMAIN staging),
                    paths |-> IF r.result # NoPath
                              THEN Append(mv.paths, [name |-> r.result.name,
                                                     data |-> staging[src.name],
                                                     source |-> src.name,
                                                     prefix |-> prefix])
                              ELSE mv.paths]
    /\ UNCHANGED <<parserVars, rg, archiveExists, stagingExists, today, w, orchVars>>

NextArchiver == StageFile \/ Midnight \/ ArchiveCall

SpecArchiver == InitArchiver /\ [][NextArchiver]_vars

\* C2: an archive call never overwrites or removes an archived file (every
\* file seen in the archive before a call is still there with its content),
\* the path a call returns was free before the call, and the paths returned
\* so far all exist, hold what was moved to them and are pairwise distinct.
C2_NeverOverwrites ==
    /\ \A n \in DOMAIN mv.seen : n \in DOMAIN archive /\ archive[n] = mv.seen[n]
    /\ mv.result # NoPath => mv.result.name \notin DOMAIN mv.seen
    /\ \A i \in 1..Len(mv.paths) :
          /\ mv.paths[i].name \in DOMAIN archive
          /\ archive[mv.paths[i].name] = mv.paths[i].data
    /\ \A i, j \in 1..Len(mv.paths) :
          i # j => mv.paths[i].name # mv.paths[j].name

\* two files of different content archived under the same name and prefix on
\* the same day, the second one taking the _1 name
C2_Witness ==
    /\ Len(mv.paths) >= 2
    /\ today = Today0
    /\ mv.paths[1].data # mv.paths[2].data
    /\ mv.paths[1].name = <<"p", "_">> \o StrftimeYmd(Today0) \o <<"_">> \o NameF
    /\ mv.paths[2].name = <<"p", "_">> \o StrftimeYmd(Today0) \o <<"_", "f", "_", "1">> \o ExtPdf

\* C16: a call whose source is None or names no existing file returns None,
\* raises nothing and leaves staging and the archive exactly as they were.
C16_MissingSourceNoEffect ==
    [][(mv'.calls = mv.calls + 1 /\ mv'.missing) =>
          /\ mv'.result = NoPath /\ ~mv'.raised
          /\ staging' = staging /\ archive' = archive
          /\ mv'.paths = mv.paths]_vars

\* a call for a file that is not in staging, while staging and the archive
\* both hold files
C16_Witness ==
    /\ mv.calls >= 2 /\ mv.missing /\ mv.result = NoPath
    /\ DOMAIN staging # {} /\ DOMAIN archive # {}

\* {prefix}_{today}_{base}{ext}, or {today}_{base}{ext} for an empty prefix;
\* with _k before the extension for k >= 1
DestName(prefix, day, source, k) ==
    LET base == splitext(source)[1]
        ext == splitext(source)[2]
        counter == IF k = 0 THEN <<>> ELSE <<"_">> \o IntToStr(k)
        dated == StrftimeYmd(day) \o <<"_">> \o base \o counter \o ext
    IN  IF prefix = <<>> THEN dated ELSE prefix \o <<"_">> \o dated

\* C17: a call that returns a path has moved its source to the plain
\* destination name when that was free, and otherwise to the name with _k
\* for the smallest k >= 1 that was free; the source has left staging and the
\* archive has gained exactly that file with the source's content.
C17_DestinationName ==
    [][(mv'.calls = mv.calls + 1 /\ mv'.result # NoPath) =>
          /\ Len(mv'.paths) = Len(mv.paths) + 1
          /\ LET e == mv'.paths[Len(mv'.paths)]
                 taken == DOMAIN archive
             IN  /\ e.name = mv'.result.name
                 /\ e.source \in DOMAIN staging
                 /\ staging' = Restrict(staging, DOMAIN staging \ {e.source})
                 /\ archive' = WithFile(archive, e.name, staging[e.source])
                 /\ e.name \notin taken
                 /\ \E k \in 0..Cardinality(taken) :
                       /\ e.name = DestName(e.prefix, today, e.source, k)
                       /\ \A j \in 0..(k - 1) :
                             DestName(e.prefix, today, e.source, j) \in taken]_vars

\* f.pdf archived twice with prefix p on one day into an empty archive: the
\* plain name first, the _1 name second, and f.pdf is no longer in staging
C17_Witness ==
    /\ Len(mv.paths) = 2 /\ mv.calls = 2 /\ today = Today0
    /\ mv.paths[1].source = NameF /\ mv.paths[2].source = NameF
    /\ mv.paths[1].prefix = <<"p">> /\ mv.paths[2].prefix = <<"p">>
    /\ mv.paths[1].name = DestName(<<"p">>, Today0, NameF, 0)
    /\ mv.paths[2].name = DestName(<<"p">>, Today0, NameF, 1)
    /\ DOMAIN archive = {mv.paths[1].name, mv.paths[2].name}
    /\ NameF \notin DOMAIN staging

-----------------------------------------------------------------------------
(* Harness for wait_for_download_complete: between two polls any file of a *)
(* small universe may appear in or disappear from staging.                 *)

MaxTimeout == 3

NameFPart == NameF \o ExtCrdownload
NameXTmp == <<"x">> \o ExtTmp
NameNotes == <<"n">> \o ExtTxt

WatchNames == {NameF, NameG, NameFPart, NameXTmp, NameNotes}
WatchTypes == {ExtPdf, ExtPdfUpper}

InitWatcher ==
    /\ archiveExists = TRUE /\ stagingExists = TRUE
    /\ archive = EmptyDir
    /\ staging \in {[n \in S |-> <<"A">>] : S \in SUBSET WatchNames}
    /\ today = Today0
    /\ w \in {WBegin(t, ft) : t \in 0..MaxTimeout, ft \in WatchTypes}
    /\ ParserIdle /\ RgIdle /\ MvIdle /\ OrchIdle

\* the browser (or anything else) creates or removes a file during the sleep
StagingChange ==
    /\ w.state = "polling"
    /\ \E n \in WatchNames :
          staging' = IF n \in DOMAIN staging
                     THEN Restrict(staging, DOMAIN staging \ {n})
                     ELSE WithFile(staging, n, <<"A">>)
    /\ UNCHANGED <<parserVars, rg, archiveExists, stagingExists, archive, today,
                   w, mv, orchVars>>

NextWatcher == WatchPoll \/ StagingChange

SpecWatcher == InitWatcher /\ [][NextWatcher]_vars

\* C10: success is reported only at a poll whose listing holds no
\* .crdownload or .tmp file, and the path returned is an entry of that
\* listing whose lower-cased name ends with the expected extension; a
\* failure carries no path.
C10_SuccessOnlyWithoutMarker ==
    /\ (w.state = "done" /\ w.success) =>
          /\ \A f \in w.files : ~EndsWith(f, ExtCrdownload) /\ ~EndsWith(f, ExtTmp)
          /\ w.path.dir = "staging"
          /\ w.path.name \in w.files
          /\ EndsWith(Lower(w.path.name), Lower(w.file_type))
    /\ (w.state = "done" /\ ~w.success) => w.path = NoPath

\* an earlier poll saw a marker and waited; a later one returned g.PDF
C10_Witness ==
    /\ w.state = "done" /\ w.success /\ w.sawMarker
    /\ w.path = StagingPath(NameG)
    /\ NameF \in w.files

\* the watcher's loop is sequential code between sleeps of one second: a
\* poll that can happen does happen
SpecWatcherLive == InitWatcher /\ [][NextWatcher]_vars /\ WF_vars(WatchPoll)

\* a file whose name carries the expected extension, whatever the case
HasExtension(f, ext) == EndsWith(Lower(f), Lower(ext))

\* C11: the watcher returns, after at most timeout polls (one per second
\* slept); it reports success only out of a poll whose listing held no
\* marker and a file of the expected extension, so it returns (False, None)
\* when no poll saw such a listing; a failure is returned after exactly
\* timeout polls, all of them fruitless.
C11_WatcherBounded ==
    /\ [](/\ w.polls <= w.timeout /\ w.seconds <= w.timeout
          /\ w.state = "polling" => w.polls = w.seconds
          /\ (w.state = "done" /\ ~w.success) =>
                w.path = NoPath /\ w.polls = w.timeout /\ w.seconds = w.timeout
          /\ (w.state = "done" /\ w.success) =>
                /\ w.polls = w.seconds + 1
                /\ \A f \in w.files : ~IsMarker(f)
                /\ \E f \in w.files : HasExtension(f, w.file_type))
    /\ <>(w.state = "done")

\* the bound elapsed with a marker next to a completed file at the last poll
C11_Witness ==
    /\ w.state = "done" /\ ~w.success /\ w.path = NoPath
    /\ w.timeout = MaxTimeout /\ w.polls = MaxTimeout /\ w.sawMarker
    /\ NameFPart \in w.files /\ NameF \in w.files

\* C12 (as claimed): a poll whose listing holds no marker and a file of the
\* expected extension returns success with such a file at once, so a file
\* that is in staging from second t on is returned by the poll of second t
\* when no marker is ever there.
C12_CompletedFileReturnedAtOnce ==
    (/\ w.polls >= 1
     /\ \A f \in w.files : ~IsMarker(f)
     /\ \E f \in w.files : HasExtension(f, w.file_type))
    => /\ w.state = "done" /\ w.success
       /\ w.path.dir = "staging" /\ w.path.name \in w.files
       /\ HasExtension(w.path.name, w.file_type)

-----------------------------------------------------------------------------
(* main(): construction of the scraper, login, navigation, teardown        *)

Stale == "StaleElementReferenceException"
Timeout == "TimeoutException"
NoSuchElement == "NoSuchElementException"

\* what a call into the driven browser can raise
UiFailures == {Stale, Timeout, NoSuchElement}

\* number of polls of the download watcher in a run (stands for timeout=60)
DownloadTimeout == 2
MaxAccounts == 2
MaxInvoices == 2

\* clicked, triggers: invoice options clicked, download buttons clicked;
\* archived: what move_and_rename_file returned; faults: what went wrong
\* ("ui", "decode", "watcher", "move"); exc, excVia, excAt: the failure caught
\* at the account-loop boundary, how it got there and from which step;
\* loopDone: the account loop ran to its end; started: __init__ returned;
\* login, navigate: what login() and navigate_to_invoices() returned or raised;
\* loginAt, loginKind: the step that failed in the login() that has just
\* returned, and with what (forgotten once the navigation has been attempted);
\* firstClean: staging held no completed file of the expected type when the
\* first download button was clicked; handler: the except clause of
\* process_accounts that took the failure
HistInit == [clicked |-> 0, triggers |-> 0, archived |-> <<>>, faults |-> {},
             exc |-> "none", excVia |-> "none", excAt |-> "none",
             loopDone |-> FALSE, started |-> FALSE,
             login |-> "none", navigate |-> "none",
             loginAt |-> "none", loginKind |-> "none", firstClean |-> TRUE,
             handler |-> "none"]

CurNone == [value |-> <<>>, prefix |-> <<>>, downloaded_file |-> NoPath]

Conta(account, ref, dt) ==
    <<"c", "o", "n", "t", "a", "_">> \o account \o <<"_", "r", "e", "f", "_">>
    \o StrftimeYm(ref) \o <<"_", "v", "e", "n", "c", "_">> \o StrftimeYmd(dt)

Acct111 == <<"1", "1", "1">>
Acct222 == <<"2", "2", "2">>

TokValid == <<"5", "/", "3", "/", "2", "0", "2", "4", "|", "3", "|", "2", "0", "2", "4">>
TokBad == <<"a", "b", "c", "|", "1", "|", "2", "0", "2", "4">>
TokShort == <<"1", "/", "1", "/", "2", "0", "2", "4", "|", "2">>

\* the file name the server gives every invoice document
ServerName == NameF
OldData == <<"o", "l", "d">>

Init ==
    /\ pc = "start" /\ driver = "none" /\ escaped = "none"
    /\ account_list = <<>> /\ acctIdx = 0 /\ options = 0 /\ invIdx = 0
    /\ cur = CurNone /\ dls = <<>> /\ hist = HistInit
    /\ archiveExists \in BOOLEAN
    /\ stagingExists \in {FALSE, archiveExists}
    /\ archive = EmptyDir
    /\ staging \in IF stagingExists
                   THEN {EmptyDir, WithFile(EmptyDir, ServerName, OldData),
                         WithFile(EmptyDir, NameXTmp, OldData)}
                   ELSE {EmptyDir}
    /\ today = Today0
    /\ ParserIdle /\ RgIdle /\ WIdle /\ MvIdle

\* ClaroInvoiceScraper.__init__ up to the creation of the driver: makedirs of
\* the download directory (not of its tmp subdirectory), then webdriver.Chrome,
\* which may fail; the browser may or may not create its download directory.
NewScraper ==
    /\ pc = "start"
    /\ archiveExists' = TRUE
    /\ \/ /\ driver' = "open"
          /\ stagingExists' \in {stagingExists, TRUE}
          /\ pc' = "clear"
          /\ escaped' = escaped
       \/ /\ driver' = driver
          /\ stagingExists' = stagingExists
          /\ pc' = "exit"
          /\ escaped' = "WebDriverException"
    /\ UNCHANGED <<parserVars, rg, archive, staging, today, w, mv, account_list,
                   acctIdx, options, invIdx, cur, dls, hist>>

\* os.listdir raises when the directory is absent; an unlink that fails is
\* logged and skipped, so the files of "undeletable" stay
clear_tmp_directory(exists, dir, undeletable) ==
    IF ~exists THEN [raised |-> TRUE, staging |-> dir]
    ELSE [raised |-> FALSE, staging |-> Restrict(dir, DOMAIN dir \cap undeletable)]

\* the rest of __init__: clear_tmp_directory(); a failure leaves __init__ and
\* main(), whose try block has not been entered yet
ClearTmp ==
    /\ pc = "clear"
    /\ \E undeletable \in SUBSET DOMAIN staging :
          LET r == clear_tmp_directory(stagingExists, staging, undeletable) IN
          /\ staging' = r.staging
          /\ pc' = IF r.raised THEN "exit" ELSE "login"
          /\ escaped' = IF r.raised THEN "FileNotFoundError" ELSE escaped
          /\ hist' = [hist EXCEPT !.started = ~r.raised]
    /\ UNCHANGED <<parserVars, rg, archiveExists, stagingExists, archive, today,
                   w, mv, driver, account_list, acctIdx, options, invIdx, cur, dls>>

LoginSteps == {"get", "wait_username", "find_password", "send_keys", "find_button",
               "click_button", "wait_window", "switch_window", "wait_landing",
               "wait_popup", "click_popup"}

\* a login() without the inner handler around the wait for the dialog
login_popupFatal(failAt, kind) ==
    IF failAt = "none" THEN "True"
    ELSE IF kind = Timeout THEN "False"
    ELSE kind

\* the result of login() when step failAt raises kind ("none": nothing fails)
login(failAt, kind) ==
    IF failAt = "none" THEN "True"
    ELSE IF failAt \in {"wait_popup", "click_popup"} /\ kind = Timeout THEN "True"
    ELSE IF kind = Timeout THEN "False"
    ELSE kind

NavigateSteps == {"get", "wait_selector"}

navigate_to_invoices(failAt, kind) ==
    IF failAt = "none" THEN "True"
    ELSE IF kind = Timeout THEN "False"
    ELSE kind

\* a main() that goes on whatever the call returned
after_step_ungated(result, next) == next

\* main(): what follows a call that returned a truth value or raised
after_step(result, next) ==
    IF result = "True" THEN next ELSE "close"

Login ==
    /\ pc = "login"
    /\ \E failAt \in LoginSteps \cup {"none"}, kind \in UiFailures :
          LET r == login(failAt, kind) IN
          /\ pc' = after_step(r, "navigate")
          /\ escaped' = IF r \in {"True", "False"} THEN escaped ELSE r
          /\ hist' = [hist EXCEPT !.login = r, !.loginAt = failAt,
                                  !.loginKind = IF failAt = "none" THEN "none" ELSE kind]
    /\ UNCHANGED <<parserVars, rg, fsVars, w, mv, driver, account_list, acctIdx,
                   options, invIdx, cur, dls>>

Navigate ==
    /\ pc = "navigate"
    /\ \E failAt \in NavigateSteps \cup {"none"}, kind \in UiFailures :
          LET r == navigate_to_invoices(failAt, kind) IN
          /\ pc' = after_step(r, "pa_locate")
          /\ escaped' = IF r \in {"True", "False"} THEN escaped ELSE r
          /\ hist' = [hist EXCEPT !.navigate = r, !.loginAt = "none",
                                  !.loginKind = "none"]
    /\ UNCHANGED <<parserVars, rg, fsVars, w, mv, driver, account_list, acctIdx,
                   options, invIdx, cur, dls>>

\* finally: scraper.close()
Close ==
    /\ pc = "close"
    /\ driver' = "quit"
    /\ pc' = "exit"
    /\ UNCHANGED <<parserVars, rg, fsVars, w, mv, escaped, account_list, acctIdx,
                   options, invIdx, cur, dls, hist>>


-----------------------------------------------------------------------------
(* process_accounts()                                                      *)

AccountNumbers == <<Acct111, Acct222>>

\* the values of the account selector, at most MaxAccounts of them: an
\* optional placeholder of empty value, then account numbers (which the
\* program does not tell apart, so they come in one order)
AccountLists ==
    {p \o SubSeq(AccountNumbers, 1, k) :
        p \in {<<>>, <<<<>>>>}, k \in 0..Len(AccountNumbers)}
    \cap UNION {[1..n -> {<<>>, Acct111, Acct222}] : n \in 0..MaxAccounts}

OrchTokens == {TokValid, TokBad, TokShort, <<>>}

\* the values an invoice option can carry (read when the option is clicked)
OptionValues == OrchTokens

\* how many invoice options the page shows for an account
OptionCounts == 0..MaxInvoices

\* a process_accounts whose only handler is except NoSuchElementException
except_clause_onlyNoSuchElement(exc) ==
    IF exc = NoSuchElement THEN "NoSuchElementException" ELSE "none"

\* the except clause of process_accounts that matches a failure: every
\* failure raised in its try block is an Exception
except_clause(exc) ==
    IF exc = NoSuchElement THEN "NoSuchElementException" ELSE "Exception"

\* except NoSuchElementException / except Exception: the failure is logged
\* and process_accounts returns
Caught(h, exc, via) ==
    [h EXCEPT !.exc = exc, !.excVia = via, !.excAt = pc,
              !.handler = except_clause(exc),
              !.faults = @ \cup {IF via \in {"direct", "guard"} THEN "ui" ELSE via}]

\* what leaves process_accounts for main(): a failure no except clause took
Escaping(h) == IF h.exc # "none" /\ h.handler = "none" THEN h.exc ELSE escaped

\* use_element_safely is decorated with retries=3, delay=1 and returns None;
\* its wait can time out (WebDriverWait ignores NoSuchElementException) and
\* its script can meet a stale element
UseElementSafely == RgBegin(3, 1, {"None"}, {Timeout})

\* what the plain driver calls of each step of process_accounts can raise
StepFailures(step) ==
    CASE step = "pa_locate" -> {Timeout, Stale}
      [] step = "pa_select" -> {Timeout, NoSuchElement}
      [] step = "pa_guard_selector" -> {Timeout, Stale}
      [] step = "pa_invoice" -> {Stale}
      [] step = "pa_guard_button" -> {NoSuchElement, Stale}

RgDone == rg.state \in {"returned", "raised"}

\* account_select = Select(wait.until(...)); account_list = [values]
LocateAccounts ==
    /\ pc = "pa_locate"
    /\ \/ \E l \in AccountLists :
            /\ account_list' = l /\ acctIdx' = 1 /\ pc' = "pa_select"
            /\ hist' = hist
       \/ \E fail \in StepFailures(pc) :
            /\ hist' = Caught(hist, fail, "direct") /\ pc' = "close"
            /\ UNCHANGED <<account_list, acctIdx>>
    /\ escaped' = Escaping(hist')
    /\ UNCHANGED <<parserVars, rg, fsVars, w, mv, driver, options, invIdx,
                   cur, dls>>

\* head of the account loop; select the account by value; for a non-empty
\* account number enter use_element_safely for the invoice-date selector
SelectAccount ==
    /\ pc = "pa_select"
    /\ IF acctIdx > Len(account_list)
       THEN /\ hist' = [hist EXCEPT !.loopDone = TRUE]
            /\ pc' = "close"
            /\ UNCHANGED <<acctIdx, rg>>
       ELSE \/ /\ hist' = hist
               /\ IF account_list[acctIdx] # <<>>
                  THEN rg' = UseElementSafely /\ pc' = "pa_guard_selector"
                       /\ acctIdx' = acctIdx
                  ELSE rg' = rg /\ pc' = "pa_select" /\ acctIdx' = acctIdx + 1
            \/ \E fail \in StepFailures(pc) :
                 /\ hist' = Caught(hist, fail, "direct") /\ pc' = "close"
                 /\ UNCHANGED <<acctIdx, rg>>
    /\ escaped' = Escaping(hist')
    /\ UNCHANGED <<parserVars, fsVars, w, mv, driver, account_list, options,
                   invIdx, cur, dls>>

\* after use_element_safely: invoice_date_select = Select(wait.until(...))
LocateInvoices ==
    /\ pc = "pa_guard_selector" /\ RgDone
    /\ IF rg.state = "raised"
       THEN /\ hist' = Caught(hist, rg.exc, "guard") /\ pc' = "close"
            /\ UNCHANGED <<rg, options, invIdx>>
       ELSE \/ \E n \in OptionCounts :
                 /\ options' = n /\ invIdx' = 1 /\ pc' = "pa_invoice"
                 /\ rg' = RgIdleValue /\ hist' = hist
            \/ \E fail \in StepFailures(pc) :
                 /\ hist' = Caught(hist, fail, "direct") /\ pc' = "close"
                 /\ UNCHANGED <<rg, options, invIdx>>
    /\ escaped' = Escaping(hist')
    /\ UNCHANGED <<parserVars, fsVars, w, mv, driver, account_list, acctIdx,
                   cur, dls>>

\* a decoding that builds a prefix from whatever the parser returned
decode_anyResult(account_number, invoice_date_value) ==
    IF invoice_date_value = <<>> THEN [kind |-> "skip", exc |-> "none", prefix |-> <<>>]
    ELSE LET r == extract_and_parse_dates(invoice_date_value) IN
         [kind |-> "prefix", exc |-> "none",
          prefix |-> Conta(account_number, r.second, r.first)]

\* if invoice_date_value: decode it and build filename_prefix.  A (None, None)
\* from the parser makes invoice_ref.strftime raise AttributeError.
decode(account_number, invoice_date_value) ==
    IF invoice_date_value = <<>> THEN [kind |-> "skip", exc |-> "none", prefix |-> <<>>]
    ELSE LET r == extract_and_parse_dates(invoice_date_value) IN
         IF r.kind = "IndexError"
         THEN [kind |-> "raise", exc |-> "IndexError", prefix |-> <<>>]
         ELSE IF r.kind = "none"
         THEN [kind |-> "raise", exc |-> "AttributeError", prefix |-> <<>>]
         ELSE [kind |-> "prefix", exc |-> "none",
               prefix |-> Conta(account_number, r.second, r.first)]

\* head of the invoice loop; invoice.click(), invoice.get_attribute("value"),
\* decoding, then use_element_safely for the download button
ClickInvoice ==
    /\ pc = "pa_invoice"
    /\ IF invIdx > options
       THEN /\ acctIdx' = acctIdx + 1 /\ pc' = "pa_select"
            /\ UNCHANGED <<invIdx, cur, rg, hist>>
       ELSE \/ \E invoice_date_value \in OptionValues :
               LET d == decode(account_list[acctIdx], invoice_date_value)
                   h == [hist EXCEPT !.clicked = @ + 1]
               IN  /\ acctIdx' = acctIdx
                   /\ CASE d.kind = "skip" ->
                             /\ invIdx' = invIdx + 1 /\ pc' = "pa_invoice"
                             /\ hist' = h /\ UNCHANGED <<cur, rg>>
                        [] d.kind = "raise" ->
                             /\ hist' = Caught(h, d.exc, "decode") /\ pc' = "close"
                             /\ UNCHANGED <<invIdx, cur, rg>>
                        [] d.kind = "prefix" ->
                             /\ cur' = [value |-> invoice_date_value, prefix |-> d.prefix,
                                        downloaded_file |-> NoPath]
                             /\ rg' = UseElementSafely /\ pc' = "pa_guard_button"
                             /\ hist' = h /\ invIdx' = invIdx
            \/ \E fail \in StepFailures(pc) :
                 /\ hist' = Caught(hist, fail, "direct") /\ pc' = "close"
                 /\ UNCHANGED <<acctIdx, invIdx, cur, rg>>
    /\ escaped' = Escaping(hist')
    /\ UNCHANGED <<parserVars, fsVars, w, mv, driver, account_list, options,
                   dls>>

\* the files of a directory that the watcher of a run would take for a
\* completed download
CompletedIn(dir) == {f \in DOMAIN dir : EndsWith(Lower(f), ExtPdf)}

\* the document the server sends for the i-th download the browser was asked
\* for: it belongs to the option (prefix) whose download button was clicked
DocOf(owner, i) == owner \o <<"#">> \o IntToStr(i)

\* after use_element_safely: find the download button and click it; the
\* browser starts a download; wait_for_download_complete() is entered
TriggerDownload ==
    /\ pc = "pa_guard_button" /\ RgDone
    /\ IF rg.state = "raised"
       THEN /\ hist' = Caught(hist, rg.exc, "guard") /\ pc' = "close"
            /\ UNCHANGED <<rg, w, dls>>
       ELSE \/ /\ hist' = [hist EXCEPT
                            !.triggers = @ + 1,
                            !.firstClean = IF hist.triggers = 0
                                           THEN CompletedIn(staging) = {}
                                           ELSE @]
               /\ dls' = Append(dls, [owner |-> cur.prefix, state |-> "pending"])
               /\ w' = WBegin(DownloadTimeout, ExtPdf)
               /\ rg' = RgIdleValue /\ pc' = "pa_watch"
            \/ \E fail \in StepFailures(pc) :
                 /\ hist' = Caught(hist, fail, "direct") /\ pc' = "close"
                 /\ UNCHANGED <<rg, w, dls>>
    /\ escaped' = Escaping(hist')
    /\ UNCHANGED <<parserVars, fsVars, mv, driver, account_list, acctIdx,
                   options, invIdx, cur>>

\* a run that goes on with the next invoice after a watcher failure
on_download_goOn(download_success) == "archive"

\* if download_success: ... else: return None
on_download(download_success) == IF download_success THEN "archive" ELSE "return"

\* the watcher has returned: archive the file, or leave process_accounts
Downloaded ==
    /\ pc = "pa_watch" /\ w.state = "done"
    /\ LET h == IF w.success THEN hist
                ELSE [hist EXCEPT !.faults = @ \cup {"watcher"}]
       IN
       IF on_download(w.success) = "return"
       THEN /\ hist' = h
            /\ pc' = "close"
            /\ UNCHANGED <<archive, staging, invIdx, cur, w>>
       ELSE \E moveOk \in BOOLEAN :
              LET r == move_and_rename_file(w.path, cur.prefix, FsNow, moveOk) IN
              /\ archive' = r.archive
              /\ staging' = r.staging
              /\ w' = WIdleValue
              /\ cur' = IF r.raised THEN [cur EXCEPT !.downloaded_file = w.path]
                         ELSE CurNone
              /\ IF r.raised
                 THEN /\ hist' = Caught(h, "OSError", "move")
                      /\ pc' = "close" /\ invIdx' = invIdx
                 ELSE /\ hist' = IF r.result = NoPath THEN h
                                 ELSE [h EXCEPT !.archived =
                                         Append(@, [name |-> r.result.name,
                                                    prefix |-> cur.prefix,
                                                    trigger |-> hist.triggers,
                                                    data |-> staging[w.path.name]])]
                      /\ pc' = "pa_invoice" /\ invIdx' = invIdx + 1
    /\ escaped' = Escaping(hist')
    /\ UNCHANGED <<parserVars, rg, archiveExists, stagingExists, today, mv, driver,
                   account_list, acctIdx, options, dls>>

-----------------------------------------------------------------------------
(* The browser writes the downloads it was asked for while the run is in   *)
(* process_accounts (the teardown follows its return at once)              *)

MarkerName(i) == <<"u">> \o IntToStr(i) \o ExtCrdownload

\* the browser does not overwrite: f.pdf, f (1).pdf, f (2).pdf, ...
RECURSIVE UniqueName(_, _)
UniqueName(k, existing) ==
    LET n == IF k = 0 THEN ServerName
             ELSE <<"f", " ", "(">> \o IntToStr(k) \o <<")">> \o ExtPdf
    IN  IF n \notin existing THEN n ELSE UniqueName(k + 1, existing)

BrowserWrite ==
    /\ driver = "open" /\ stagingExists /\ pc # "close"
    /\ \E i \in DOMAIN dls :
          /\ dls[i].state = "pending"
          /\ dls' = [dls EXCEPT ![i].state = "partial"]
          /\ staging' = WithFile(staging, MarkerName(i), DocOf(dls[i].owner, i))
    /\ UNCHANGED <<parserVars, rg, archiveExists, stagingExists, archive, today, w,
                   mv, pc, driver, escaped, account_list, acctIdx, options, invIdx,
                   cur, hist>>

BrowserFinish ==
    /\ driver = "open" /\ stagingExists /\ pc # "close"
    /\ \E i \in DOMAIN dls :
          /\ dls[i].state \in {"pending", "partial"}
          /\ dls' = [dls EXCEPT ![i].state = "complete"]
          /\ LET rest == Restrict(staging, DOMAIN staging \ {MarkerName(i)})
             IN  staging' = WithFile(rest, UniqueName(0, DOMAIN rest),
                                     DocOf(dls[i].owner, i))
    /\ UNCHANGED <<parserVars, rg, archiveExists, stagingExists, archive, today, w,
                   mv, pc, driver, escaped, account_list, acctIdx, options, invIdx,
                   cur, hist>>

Next ==
    \/ NewScraper \/ ClearTmp \/ Login \/ Navigate \/ Close
    \/ LocateAccounts \/ SelectAccount \/ LocateInvoices \/ ClickInvoice
    \/ TriggerDownload \/ Downloaded
    \/ RetryStep \/ WatchPoll \/ BrowserWrite \/ BrowserFinish

Spec == Init /\ [][Next]_vars


-----------------------------------------------------------------------------
(* Properties of the run                                                   *)

\* C1 (as claimed): an option whose value cannot be decoded is skipped
\* alone, so a run in which nothing else went wrong ends with the account
\* loop run to its end (every later option and account was processed).
C1_BadOptionSkippedAlone ==
    (pc = "exit" /\ escaped = "none" /\ hist.faults = {"decode"}) => hist.loopDone

\* C3 (as claimed): a process that ends after the browser session was
\* created has closed it.
C3_SessionClosedAtExit ==
    (pc = "exit" /\ driver # "none") => driver = "quit"

\* C6: once the watcher has returned failure, the run is on its way to
\* teardown and no step clicks an invoice option, triggers a download,
\* asks the browser for anything or changes the archive.
C6_WatcherFailureEndsRun ==
    [][("watcher" \in hist.faults) =>
          /\ pc \in {"close", "exit"} /\ pc' \in {"close", "exit"}
          /\ hist'.clicked = hist.clicked /\ hist'.triggers = hist.triggers
          /\ hist'.archived = hist.archived /\ archive' = archive
          /\ Len(dls') = Len(dls)]_vars

\* the watcher failed while an option and an account were still to come, and
\* the run has ended with the session closed
C6_Witness ==
    /\ "watcher" \in hist.faults /\ pc = "exit" /\ driver = "quit"
    /\ invIdx < options /\ acctIdx < Len(account_list)
    /\ account_list[Len(account_list)] # <<>>

\* C7 (as claimed): a move that fails is contained to its file, so a run in
\* which nothing else went wrong ends with the account loop run to its end.
C7_MoveFailureContained ==
    (pc = "exit" /\ escaped = "none" /\ hist.faults = {"move"}) => hist.loopDone

\* C8 (as claimed): a stale-reference failure raised in the invoice loop
\* reaches the account-loop boundary only out of the retry wrapper, after
\* its attempts are exhausted.
C8_StaleOnlyAfterRetries ==
    (hist.exc = Stale /\ hist.excAt \in {"pa_guard_selector", "pa_invoice", "pa_guard_button"})
        => (hist.excVia = "guard" /\ rg.state = "raised" /\ rg.stales = rg.retries)

\* C9 (as claimed): startup never fails for want of the staging directory,
\* and once it is over both directories exist and, until a download is
\* triggered, staging holds no file.
C9_StartupLeavesCleanDirs ==
    /\ escaped # "FileNotFoundError"
    /\ hist.started =>
          /\ stagingExists /\ archiveExists
          /\ hist.triggers = 0 => DOMAIN staging = {}

\* an option value that yields a due date and a reference period
Decodable(value) == value # <<>> /\ extract_and_parse_dates(value).kind = "dates"

DecodableValues == {v \in OptionValues : Decodable(v)}

\* the prefixes of the options that have a due date and a reference period
DecodedPrefixes ==
    {decode(a, v).prefix : a \in {Acct111, Acct222}, v \in DecodableValues}

\* C13: the download button is clicked, the watcher entered and the archiver
\* called only for a clicked option whose value was decoded into the prefix
\* in use; once an option's value has failed to decode nothing of the kind
\* happens any more; every archived file carries the prefix of a decoded option.
C13_NoDownloadWithoutDates ==
    [][/\ (\/ hist'.triggers # hist.triggers
           \/ (w.state # "polling" /\ w'.state = "polling")
           \/ archive' # archive
           \/ hist'.archived # hist.archived)
          => /\ cur.value \in DecodableValues
             /\ cur.prefix \in DecodedPrefixes
             /\ "decode" \notin hist.faults
       /\ ("decode" \in hist'.faults)
          => /\ hist'.triggers = hist.triggers /\ w' = w /\ dls' = dls
             /\ archive' = archive /\ hist'.archived = hist.archived
             /\ pc' \in {"close", "exit"}
       /\ \A i \in 1..Len(hist'.archived) :
             hist'.archived[i].prefix \in DecodedPrefixes]_vars

\* one invoice was downloaded and archived, then the next option's value
\* failed to decode and the run ended
C13_Witness ==
    /\ "decode" \in hist.faults /\ pc = "exit"
    /\ hist.clicked = 2 /\ hist.triggers = 1 /\ Len(hist.archived) = 1
    /\ w.state = "idle"

InAccountProcessing ==
    pc \in {"pa_locate", "pa_select", "pa_guard_selector", "pa_invoice",
            "pa_guard_button", "pa_watch"}

NothingProcessed ==
    /\ account_list = <<>> /\ acctIdx = 0 /\ hist.clicked = 0 /\ hist.triggers = 0
    /\ dls = <<>> /\ hist.exc = "none" /\ ~hist.loopDone /\ rg = RgIdleValue
    /\ w = WIdleValue /\ archive = EmptyDir

\* C14: navigation is attempted only after login() returned True, and
\* account processing only after navigate_to_invoices() returned True; when
\* login() returns False (or raises) no navigation is attempted; when the
\* navigation times out (returns False) the run is at teardown or over and
\* no account was selected and no download triggered.
C14_LinearGatedTransitions ==
    /\ (pc = "navigate" \/ hist.navigate # "none") => hist.login = "True"
    /\ (InAccountProcessing \/ ~NothingProcessed) => hist.navigate = "True"
    /\ (hist.login \notin {"none", "True"}) =>
          hist.navigate = "none" /\ pc \in {"close", "exit"} /\ NothingProcessed
    /\ (hist.navigate \notin {"none", "True"}) =>
          pc \in {"close", "exit"} /\ NothingProcessed

\* the navigation timed out after a successful login and the run is over
C14_Witness ==
    /\ hist.login = "True" /\ hist.navigate = "False"
    /\ pc = "exit" /\ driver = "quit" /\ escaped = "none"

\* C15: login() returns False, and main() sees no exception, when the wait
\* for the second window or the wait for the landing page times out; it
\* returns True when no step fails and when only the wait for the dialog
\* times out; a False is never accompanied by an exception.
C15_LoginOutcome ==
    /\ (hist.loginAt \in {"wait_window", "wait_landing"} /\ hist.loginKind = Timeout)
          => hist.login = "False" /\ escaped = "none"
    /\ (hist.login # "none" /\ hist.loginAt = "none") => hist.login = "True"
    /\ (hist.loginAt = "wait_popup" /\ hist.loginKind = Timeout) => hist.login = "True"
    /\ (hist.login = "False") =>
          /\ escaped = "none" /\ hist.loginKind = Timeout
          /\ hist.loginAt \notin {"wait_popup", "click_popup"}

\* the dialog did not show up within its wait and main() goes on to the
\* navigation
C15_Witness ==
    /\ hist.loginAt = "wait_popup" /\ hist.loginKind = Timeout
    /\ hist.login = "True" /\ pc = "navigate" /\ escaped = "none"

\* C19: in a run whose first download button was clicked with no completed
\* file in staging, every later download button is clicked with no completed
\* file in staging either, and every archived file holds the document of
\* the download that was triggered for the option whose prefix it carries.
C19_NoMisattribution ==
    [][hist'.firstClean =>
          /\ (hist'.triggers = hist.triggers + 1) => CompletedIn(staging) = {}
          /\ \A i \in 1..Len(hist'.archived) :
                hist'.archived[i].data =
                    DocOf(hist'.archived[i].prefix, hist'.archived[i].trigger)]_vars

\* two invoices downloaded and archived in a run that started clean, each
\* archived file holding its own download's document
C19_Witness ==
    /\ hist.firstClean /\ hist.triggers = 2 /\ Len(hist.archived) = 2
    /\ hist.archived[1].trigger = 1 /\ hist.archived[2].trigger = 2
    /\ hist.archived[1].data # hist.archived[2].data
    /\ DOMAIN archive = {hist.archived[1].name, hist.archived[2].name}
    /\ pc = "pa_invoice" /\ DOMAIN staging = {}

\* what can be raised in the try block of process_accounts
AccountFailures == UiFailures \cup {"IndexError", "AttributeError", "OSError"}

\* C20: a failure raised while processing accounts is taken by an except
\* clause of process_accounts and does not reach main(); from then on the
\* run is at teardown or over: no account is selected, no option clicked, no
\* download triggered, nothing archived, and the session is closed at exit.
C20_FailureContained ==
    [][/\ (hist'.exc # "none") =>
             /\ hist'.exc \in AccountFailures
             /\ hist'.handler \in {"NoSuchElementException", "Exception"}
             /\ escaped' = "none"
             /\ pc' \in {"close", "exit"}
             /\ ~hist'.loopDone
             /\ pc' = "exit" => driver' = "quit"
       /\ (hist.exc # "none") =>
             /\ acctIdx' = acctIdx /\ invIdx' = invIdx
             /\ hist'.clicked = hist.clicked /\ hist'.triggers = hist.triggers
             /\ hist'.archived = hist.archived /\ archive' = archive
             /\ dls' = dls /\ rg' = rg /\ w' = w
             /\ hist'.exc = hist.exc
       /\ (escaped' # "none") => hist'.navigate # "True"]_vars

\* the retries of the stale download button were exhausted after one invoice
\* had been archived, with an account still to come, and the run is over
C20_Witness ==
    /\ hist.exc = Stale /\ hist.excVia = "guard" /\ hist.excAt = "pa_guard_button"
    /\ hist.handler = "Exception"
    /\ Len(hist.archived) = 1 /\ acctIdx < Len(account_list)
    /\ pc = "exit" /\ driver = "quit" /\ escaped = "none"

=============================================================================
